---- MODULE Spec2Model ----
(***************************************************************************)
(* The draft-strategy dashboard, streamlit_app.py.  The script is run from *)
(* top to bottom on every user interaction; st.session_state survives      *)
(* between runs.  One action of the model is one whole script run.         *)
(*                                                                         *)
(* Strings the script inspects character by character (player names and    *)
(* the search term) are sequences of one-character strings.  The Round     *)
(* column and the round selectbox hold the strings "1", "2" and "All".     *)
(* A Rating cell is a record [kind, num, str] so that the JavaScript       *)
(* strict equality of cellstyle_jscode (a number never equals a string)    *)
(* can be modelled.                                                        *)
(***************************************************************************)
EXTENDS Integers, Sequences, FiniteSets, TLC

VARIABLES
    df,                       \* st.session_state.df, the Dataset
    position_filter,          \* st.session_state["position_filter"]
    round_filter,             \* st.session_state["round_filter"]
    search_filter,            \* st.session_state["search_filter"]
    prev_position,            \* st.session_state.prev_position (None when absent)
    prev_round,               \* st.session_state.prev_round
    prev_search,              \* st.session_state.prev_search
    my_team,                  \* the My Team table rendered by the last run
    filtered_df,              \* the view handed to the grid by the last run
    cell_styles,              \* the Rating cell styles of the rendered view
    grid_edit,                \* the user's latest drafted-cell edit held by the grid
    grid_selected,            \* the Player of the row selected in the grid
    grid_data,                \* grid_response['data'] of the last run
    panel,                    \* what the Player Analysis section shows
    drafted_players_updated,  \* the list built by the last reconciliation
    dataframe_changed,        \* the flag set by the last reconciliation
    exception,                \* the exception that ended the last run
    run_pending,              \* st.rerun() was called: another run is queued
    reruns                    \* st.rerun() calls since the last user event

vars == <<df, position_filter, round_filter, search_filter, prev_position,
          prev_round, prev_search, my_team, filtered_df, cell_styles,
          grid_edit, grid_selected, grid_data, panel,
          drafted_players_updated, dataframe_changed, exception,
          run_pending, reruns>>

----------------------------------------------------------------------------
(* Bounds of the model *)

\* longest edited view a grid may report in SpecRecon
MaxViewLen == 2
\* most rows of a Dataset drawn in SpecFilter
MaxRows == 3
\* the rerun counter saturates here
MaxReruns == 3

----------------------------------------------------------------------------
(* Values *)

None == "None"
NoneTerm == <<"None">>
NoPlayer == <<>>
NoEdit == [Player |-> NoPlayer, drafted |-> None]

Num(n) == [kind |-> "number", num |-> n, str |-> ""]
Str(s) == [kind |-> "string", num |-> 0, str |-> s]

Tom == <<"T", "o", "m">>
Mo == <<"M", "o">>
Tim == <<"T", "i", "m">>
Otto == <<"O", "t", "t", "o">>

\* the values the drafted cell editor offers
DraftedValues == {"False", "My Team", "Other Team"}

\* the search terms a user types
SearchTerms == {<<>>, <<"t", "o", "m">>, <<"t", ".", "m">>, <<"M", "O">>}

Row(rank, player, pos, rnd, rating, d) ==
    [Rank |-> rank, Player |-> player, Position |-> pos, Round |-> rnd,
     Rating |-> rating, AnalystRating |-> "notes", drafted |-> d]

\* the rows of data/draft_strategy.csv
CsvRows ==
    << [Rank |-> 2, Player |-> Tom, Position |-> "RB", Round |-> "1", Rating |-> Num(5)],
       [Rank |-> 1, Player |-> Mo, Position |-> "WR", Round |-> "1", Rating |-> Num(3)],
       [Rank |-> 3, Player |-> Tim, Position |-> "RB", Round |-> "2", Rating |-> Num(1)] >>

load_data(csv) ==
    [i \in DOMAIN csv |->
        Row(csv[i].Rank, csv[i].Player, csv[i].Position, csv[i].Round,
            csv[i].Rating, "False")]

----------------------------------------------------------------------------
(* str.contains(search_term, case=False): the term is a regular expression *)
(* searched anywhere in the name, ignoring case.  Of the regex             *)
(* metacharacters only "." occurs in the terms of the model.               *)

lower(c) ==
    CASE c = "T" -> "t"
      [] c = "O" -> "o"
      [] c = "M" -> "m"
      [] c = "I" -> "i"
      [] OTHER -> c

regex_char_matches(p, c) == p = "." \/ lower(p) = lower(c)

str_contains(name, pat) ==
    \E k \in 0..(Len(name) - Len(pat)) :
        \A j \in 1..Len(pat) : regex_char_matches(pat[j], name[k + j])

filter_dataframe_concat(d, position, round, search_term) ==
    (IF position # "All" THEN SelectSeq(d, LAMBDA r : r.Position = position) ELSE <<>>)
    \o (IF round # "All" THEN SelectSeq(d, LAMBDA r : r.Round = round) ELSE <<>>)
    \o (IF search_term # <<>>
        THEN SelectSeq(d, LAMBDA r : str_contains(r.Player, search_term)) ELSE <<>>)
    \o (IF position = "All" /\ round = "All" /\ search_term = <<>> THEN d ELSE <<>>)

filter_dataframe(d, position, round, search_term) ==
    LET f1 == IF position # "All"
              THEN SelectSeq(d, LAMBDA r : r.Position = position) ELSE d
        f2 == IF round # "All"
              THEN SelectSeq(f1, LAMBDA r : r.Round = round) ELSE f1
        f3 == IF search_term # <<>>
              THEN SelectSeq(f2, LAMBDA r : str_contains(r.Player, search_term))
              ELSE f2
    IN f3

----------------------------------------------------------------------------
(* The My Team table *)

RECURSIVE sort_values_Rank(_)
sort_values_Rank(rows) ==
    IF rows = <<>> THEN <<>>
    ELSE LET least == CHOOSE i \in DOMAIN rows :
                          \A j \in DOMAIN rows :
                              \/ rows[i].Rank < rows[j].Rank
                              \/ (rows[i].Rank = rows[j].Rank /\ i <= j)
             rest == [k \in 1..(Len(rows) - 1) |->
                          IF k < least THEN rows[k] ELSE rows[k + 1]]
         IN <<rows[least]>> \o sort_values_Rank(rest)

my_team_of(d) == sort_values_Rank(SelectSeq(d, LAMBDA r : r.drafted = "My Team"))

----------------------------------------------------------------------------
(* The sidebar selectboxes *)

positions(d) == {"All"} \cup {d[i].Position : i \in DOMAIN d}
rounds(d) == {"All"} \cup {d[i].Round : i \in DOMAIN d}

----------------------------------------------------------------------------
(* The Rating cell style *)

Style(fg, bg) == [color |-> fg, backgroundColor |-> bg]

strict_eq(value, n) == value.kind = "number" /\ value.num = n

cellstyle_jscode_no_default(value) ==
    IF strict_eq(value, 5) THEN Style("white", "darkgreen")
    ELSE IF strict_eq(value, 4) THEN Style("black", "lightgreen")
    ELSE IF strict_eq(value, 2) THEN Style("black", "lightcoral")
    ELSE Style("white", "darkred")

cellstyle_jscode(value) ==
    IF strict_eq(value, 5) THEN Style("white", "darkgreen")
    ELSE IF strict_eq(value, 4) THEN Style("black", "lightgreen")
    ELSE IF strict_eq(value, 2) THEN Style("black", "lightcoral")
    ELSE IF strict_eq(value, 1) THEN Style("white", "darkred")
    ELSE Style("black", "white")

----------------------------------------------------------------------------
(* The grid.  It shows the view it is given; its response holds the shown  *)
(* rows with the user's drafted edit applied, and the selected row.        *)

AgGrid(view, edit, selected) ==
    LET data == [i \in DOMAIN view |->
                    IF view[i].Player = edit.Player
                    THEN [view[i] EXCEPT !.drafted = edit.drafted]
                    ELSE view[i]]
        chosen == SelectSeq(data, LAMBDA r : r.Player = selected)
    IN [has_data |-> TRUE,
        data |-> data,
        selected_rows |-> IF chosen = <<>> THEN <<>> ELSE <<chosen[1]>>]

----------------------------------------------------------------------------
(* The Player Analysis section *)

player_analysis(selected_rows) ==
    IF selected_rows # <<>>
    THEN [kind |-> "analysis",
          subheader |-> selected_rows[1].Player,
          markdown |-> selected_rows[1].AnalystRating]
    ELSE [kind |-> "info", subheader |-> NoPlayer, markdown |-> ""]

----------------------------------------------------------------------------
(* The reconciliation loop.  st.session_state.df is updated in place, so   *)
(* what the loop has written when .iloc[0] raises stays written.           *)

set_drafted(d, player, value) ==
    [j \in DOMAIN d |->
        IF d[j].Player = player THEN [d[j] EXCEPT !.drafted = value] ELSE d[j]]

set_row(d, player, row) ==
    [j \in DOMAIN d |-> IF d[j].Player = player THEN row ELSE d[j]]

RECURSIVE iterrows(_, _, _, _)
iterrows(d, data, i, updated) ==
    IF i > Len(data)
    THEN [df |-> d, drafted_players_updated |-> updated,
          dataframe_changed |-> updated # <<>>, exception |-> None]
    ELSE LET row == data[i]
             found == SelectSeq(d, LAMBDA r : r.Player = row.Player)
         IN IF found = <<>>
            THEN [df |-> d, drafted_players_updated |-> updated,
                  dataframe_changed |-> updated # <<>>,
                  exception |-> "IndexError"]
            ELSE LET original_draft_status == found[1].drafted
                 IN IF original_draft_status # row.drafted
                    THEN iterrows(set_drafted(d, row.Player, row.drafted),
                                  data, i + 1, Append(updated, row.Player))
                    ELSE iterrows(d, data, i + 1, updated)

RECURSIVE iterrows_whole_row(_, _, _, _)
iterrows_whole_row(d, data, i, updated) ==
    IF i > Len(data)
    THEN [df |-> d, drafted_players_updated |-> updated,
          dataframe_changed |-> updated # <<>>, exception |-> None]
    ELSE LET row == data[i]
             found == SelectSeq(d, LAMBDA r : r.Player = row.Player)
         IN IF found = <<>>
            THEN [df |-> d, drafted_players_updated |-> updated,
                  dataframe_changed |-> updated # <<>>,
                  exception |-> "IndexError"]
            ELSE IF found[1].drafted # row.drafted
                 THEN iterrows_whole_row(set_row(d, row.Player, row),
                                         data, i + 1, Append(updated, row.Player))
                 ELSE iterrows_whole_row(d, data, i + 1, updated)

RECURSIVE iterrows_always(_, _, _, _)
iterrows_always(d, data, i, updated) ==
    IF i > Len(data)
    THEN [df |-> d, drafted_players_updated |-> updated,
          dataframe_changed |-> updated # <<>>, exception |-> None]
    ELSE LET row == data[i]
             found == SelectSeq(d, LAMBDA r : r.Player = row.Player)
         IN IF found = <<>>
            THEN [df |-> d, drafted_players_updated |-> updated,
                  dataframe_changed |-> updated # <<>>,
                  exception |-> "IndexError"]
            ELSE iterrows_always(set_drafted(d, row.Player, row.drafted),
                                 data, i + 1, Append(updated, row.Player))

RECURSIVE iterrows_prepend(_, _, _, _)
iterrows_prepend(d, data, i, updated) ==
    IF i > Len(data)
    THEN [df |-> d, drafted_players_updated |-> updated,
          dataframe_changed |-> updated # <<>>, exception |-> None]
    ELSE LET row == data[i]
             found == SelectSeq(d, LAMBDA r : r.Player = row.Player)
         IN IF found = <<>>
            THEN [df |-> d, drafted_players_updated |-> updated,
                  dataframe_changed |-> updated # <<>>,
                  exception |-> "IndexError"]
            ELSE IF found[1].drafted # row.drafted
                 THEN iterrows_prepend(set_drafted(d, row.Player, row.drafted),
                                       data, i + 1, <<row.Player>> \o updated)
                 ELSE iterrows_prepend(d, data, i + 1, updated)

reconcile_whole_row(d, grid_response) ==
    IF grid_response.has_data
    THEN iterrows_whole_row(d, grid_response.data, 1, <<>>)
    ELSE [df |-> d, drafted_players_updated |-> <<>>,
          dataframe_changed |-> FALSE, exception |-> None]

reconcile_always(d, grid_response) ==
    IF grid_response.has_data
    THEN iterrows_always(d, grid_response.data, 1, <<>>)
    ELSE [df |-> d, drafted_players_updated |-> <<>>,
          dataframe_changed |-> FALSE, exception |-> None]

reconcile_prepend(d, grid_response) ==
    IF grid_response.has_data
    THEN iterrows_prepend(d, grid_response.data, 1, <<>>)
    ELSE [df |-> d, drafted_players_updated |-> <<>>,
          dataframe_changed |-> FALSE, exception |-> None]

reconcile(d, grid_response) ==
    IF grid_response.has_data
    THEN iterrows(d, grid_response.data, 1, <<>>)
    ELSE [df |-> d, drafted_players_updated |-> <<>>,
          dataframe_changed |-> FALSE, exception |-> None]

----------------------------------------------------------------------------
(* The two places that call st.rerun() *)

rerun_never(changed) == FALSE

rerun_after_reconcile(changed) == changed

filters_differ_always(pp, pr, ps, position, round, search_term) == TRUE

filters_differ(pp, pr, ps, position, round, search_term) ==
    pp # position \/ pr # round \/ ps # search_term

bump(n) == IF n < MaxReruns THEN n + 1 ELSE n

----------------------------------------------------------------------------
(* One run of the script, top to bottom, with the widgets at position,     *)
(* round and search_term and the grid answering grid_response.  base is    *)
(* the number of reruns that led to this run.                              *)

Script(position, round, search_term, grid_response, base) ==
    LET filtered == filter_dataframe(df, position, round, search_term)
        rec == reconcile(df, grid_response)
    IN /\ position_filter' = position
       /\ round_filter' = round
       /\ search_filter' = search_term
       /\ my_team' = my_team_of(df)
       /\ filtered_df' = filtered
       /\ cell_styles' = [i \in DOMAIN filtered |->
                              cellstyle_jscode(filtered[i].Rating)]
       /\ grid_data' = IF grid_response.has_data THEN grid_response.data ELSE <<>>
       /\ panel' = player_analysis(grid_response.selected_rows)
       /\ df' = rec.df
       /\ drafted_players_updated' = rec.drafted_players_updated
       /\ dataframe_changed' = rec.dataframe_changed
       /\ exception' = rec.exception
       /\ IF rec.exception # None
          THEN /\ run_pending' = FALSE
               /\ reruns' = base
               /\ UNCHANGED <<prev_position, prev_round, prev_search>>
          ELSE IF rerun_after_reconcile(rec.dataframe_changed)
          THEN /\ run_pending' = TRUE
               /\ reruns' = bump(base)
               /\ UNCHANGED <<prev_position, prev_round, prev_search>>
          ELSE IF filters_differ(prev_position, prev_round, prev_search,
                                 position, round, search_term)
          THEN /\ prev_position' = position
               /\ prev_round' = round
               /\ prev_search' = search_term
               /\ run_pending' = TRUE
               /\ reruns' = bump(base)
          ELSE /\ run_pending' = FALSE
               /\ reruns' = base
               /\ UNCHANGED <<prev_position, prev_round, prev_search>>

Shown(position, round, search_term) ==
    AgGrid(filter_dataframe(df, position, round, search_term),
           grid_edit', grid_selected')

----------------------------------------------------------------------------
(* Actions *)

InitWith(d) ==
    /\ df = d
    /\ position_filter = "All"
    /\ round_filter = "All"
    /\ search_filter = <<>>
    /\ prev_position = None
    /\ prev_round = None
    /\ prev_search = NoneTerm
    /\ my_team = <<>>
    /\ filtered_df = <<>>
    /\ cell_styles = <<>>
    /\ grid_edit = NoEdit
    /\ grid_selected = NoPlayer
    /\ grid_data = <<>>
    /\ panel = [kind |-> "none", subheader |-> NoPlayer, markdown |-> ""]
    /\ drafted_players_updated = <<>>
    /\ dataframe_changed = FALSE
    /\ exception = None
    /\ run_pending = TRUE
    /\ reruns = 0

Init == InitWith(load_data(CsvRows))

\* the first run of a session, and every run st.rerun() queues
Rerun ==
    /\ run_pending
    /\ UNCHANGED <<grid_edit, grid_selected>>
    /\ Script(position_filter, round_filter, search_filter,
              Shown(position_filter, round_filter, search_filter), reruns)

ChangePosition ==
    /\ ~run_pending
    /\ UNCHANGED <<grid_edit, grid_selected>>
    /\ \E p \in positions(df) \ {position_filter} :
           Script(p, round_filter, search_filter,
                  Shown(p, round_filter, search_filter), 0)

ChangeRound ==
    /\ ~run_pending
    /\ UNCHANGED <<grid_edit, grid_selected>>
    /\ \E r \in rounds(df) \ {round_filter} :
           Script(position_filter, r, search_filter,
                  Shown(position_filter, r, search_filter), 0)

ChangeSearch ==
    /\ ~run_pending
    /\ UNCHANGED <<grid_edit, grid_selected>>
    /\ \E s \in SearchTerms \ {search_filter} :
           Script(position_filter, round_filter, s,
                  Shown(position_filter, round_filter, s), 0)

SelectRow ==
    /\ ~run_pending
    /\ \E i \in DOMAIN filtered_df :
           /\ grid_selected' = filtered_df[i].Player
           /\ grid_selected' # grid_selected
    /\ UNCHANGED grid_edit
    /\ Script(position_filter, round_filter, search_filter,
              Shown(position_filter, round_filter, search_filter), 0)

EditDrafted ==
    /\ ~run_pending
    /\ \E i \in DOMAIN filtered_df, v \in DraftedValues :
           grid_edit' = [Player |-> filtered_df[i].Player, drafted |-> v]
    /\ UNCHANGED grid_selected
    /\ Script(position_filter, round_filter, search_filter,
              Shown(position_filter, round_filter, search_filter), 0)

Next ==
    \/ Rerun
    \/ ChangePosition
    \/ ChangeRound
    \/ ChangeSearch
    \/ SelectRow
    \/ EditDrafted

Spec == Init /\ [][Next]_vars

----------------------------------------------------------------------------
(* SpecRecon: the reconciliation loop on whatever a grid may report.  The  *)
(* reported rows carry their own Rank and Position, name a player of the   *)
(* Dataset or one it does not hold (Otto), and a drafted value of the      *)
(* editor or one it does not offer ("Traded").                             *)

RawDraftedValues == {"False", "My Team", "Traded"}

RawRows ==
    {Row(9, n, "WR", "1", Num(3), v) : n \in {Tom, Mo}, v \in RawDraftedValues}
    \cup {Row(9, Otto, "WR", "1", Num(3), "My Team")}

RawResponses ==
    {[has_data |-> FALSE, data |-> <<>>, selected_rows |-> <<>>]}
    \cup {[has_data |-> TRUE, data |-> view, selected_rows |-> <<>>] :
             view \in UNION {[1..n -> RawRows] : n \in 0..MaxViewLen}}

GridReports ==
    /\ ~run_pending
    /\ UNCHANGED <<grid_edit, grid_selected>>
    /\ \E grid_response \in RawResponses :
           Script(position_filter, round_filter, search_filter, grid_response, 0)

NextRecon ==
    \/ Rerun
    \/ GridReports

SpecRecon == Init /\ [][NextRecon]_vars

----------------------------------------------------------------------------
(* SpecFilter: the filters over the Datasets a CSV file may hold *)

FilterRows ==
    {Row(1, n, p, r, Num(3), "False") :
        n \in {Tom, Mo}, p \in {"RB", "WR"}, r \in {"1", "2"}}

InitFilter ==
    \E d \in UNION {[1..n -> FilterRows] : n \in 0..MaxRows} : InitWith(d)

NextFilter ==
    \/ Rerun
    \/ ChangePosition
    \/ ChangeRound
    \/ ChangeSearch

SpecFilter == InitFilter /\ [][NextFilter]_vars

----------------------------------------------------------------------------
(* SpecStyle: the Rating column over the values a cell may hold *)

RatingValues ==
    {Num(n) : n \in 0..6}
    \cup {Str(l) : l \in {"mega bullish", "bullish", "bearish", "mega bearish", "5"}}

InitStyle ==
    \E ratings \in [DOMAIN CsvRows -> RatingValues] :
        InitWith(load_data([i \in DOMAIN CsvRows |->
                               [CsvRows[i] EXCEPT !.Rating = ratings[i]]]))

NextStyle ==
    \/ Rerun
    \/ ChangePosition

SpecStyle == InitStyle /\ [][NextStyle]_vars

----------------------------------------------------------------------------
(* Helpers of the properties *)

Keys(rows) == {rows[i].Player : i \in DOMAIN rows}

UniqueKeys(rows) ==
    \A i, j \in DOMAIN rows : rows[i].Player = rows[j].Player => i = j

DraftedOf(d, player) ==
    (CHOOSE r \in {d[j] : j \in DOMAIN d} : r.Player = player).drafted

\* the rows of a view whose drafted value differs from the Dataset's
Differing(d, view) ==
    SelectSeq(view, LAMBDA r : r.Player \in Keys(d) /\ r.drafted # DraftedOf(d, r.Player))

PlayersOf(rows) == [i \in DOMAIN rows |-> rows[i].Player]

IsSubsequence(s, t) ==
    /\ Len(s) <= Len(t)
    /\ \E f \in [1..Len(s) -> 1..Len(t)] :
          /\ \A i, j \in 1..Len(s) : i < j => f[i] < f[j]
          /\ \A i \in 1..Len(s) : s[i] = t[f[i]]

\* the name holds the term as a literal substring, ignoring case
literal_contains(name, term) ==
    \E k \in 0..(Len(name) - Len(term)) :
        \A j \in 1..Len(term) : lower(term[j]) = lower(name[k + j])

Displayed ==
    /\ my_team = my_team_of(df)
    /\ filtered_df = filter_dataframe(df, position_filter, round_filter, search_filter)

----------------------------------------------------------------------------
(* Properties *)

\* C1: a reconciliation given an edited view with a Player the Dataset does
\* not hold raises an error and commits nothing: the Dataset after the
\* failed pass equals the Dataset before it.
C1_NoPartialCommit ==
    [][(Keys(grid_data') \ Keys(df) # {}) => (exception' # None /\ df' = df)]_vars

\* C2: a reconciliation changes no field but drafted and adds or removes
\* no record, whatever the other columns of the edited view hold.
C2_OnlyDraftedChanges ==
    [][/\ Len(df') = Len(df)
       /\ \A i \in DOMAIN df : [df'[i] EXCEPT !.drafted = df[i].drafted] = df[i]]_vars

\* C2 witness: a pass committed the drafted value of a view row whose Rank
\* and Position differ from the record's.
C2_Witness ==
    /\ drafted_players_updated # <<>>
    /\ \E i \in DOMAIN grid_data, j \in DOMAIN df :
          /\ grid_data[i].Player = df[j].Player
          /\ grid_data[i].Player = drafted_players_updated[1]
          /\ grid_data[i].Position # df[j].Position
          /\ grid_data[i].Rank # df[j].Rank
          /\ grid_data[i].drafted = df[j].drafted

\* C3: every record's drafted value is always one of 'False', 'My Team'
\* and 'Other Team', also after a grid reported another value.
C3_DraftedEnumerated ==
    \A i \in DOMAIN df : df[i].drafted \in DraftedValues

\* C4: with unique Player names and an edited view over keys of the
\* Dataset, each once, the pass commits every differing drafted value, the
\* list of changed keys holds exactly the differing keys in view order, and
\* every other record keeps its drafted value.
C4_CommitsDiffering ==
    [][(/\ UniqueKeys(df)
        /\ UniqueKeys(grid_data')
        /\ Keys(grid_data') \subseteq Keys(df))
       => /\ exception' = None
          /\ drafted_players_updated' = PlayersOf(Differing(df, grid_data'))
          /\ dataframe_changed' = (Differing(df, grid_data') # <<>>)
          /\ \A j \in DOMAIN df :
                df'[j].drafted =
                    IF \E i \in DOMAIN grid_data' :
                          /\ grid_data'[i].Player = df[j].Player
                          /\ grid_data'[i].drafted # df[j].drafted
                    THEN DraftedOf(grid_data', df[j].Player)
                    ELSE df[j].drafted]_vars

\* C4 witness: the view held Mo and Tom in that order, both differing; the
\* list of changed keys is <<Mo, Tom>> and both values are committed.
C4_Witness ==
    /\ exception = None
    /\ Len(grid_data) = 2
    /\ drafted_players_updated = <<Mo, Tom>>
    /\ df[1].drafted = "My Team"
    /\ df[2].drafted = "My Team"
    /\ df[3].drafted = "False"

\* C5: a record is in the output of filter_dataframe iff the position
\* matches or is "All", the round matches or is "All", and the search term
\* is empty or a case-insensitive literal substring of the Player name.
C5_FilterIffLiteral ==
    ~run_pending =>
        filtered_df =
            SelectSeq(df, LAMBDA r :
                /\ (position_filter = "All" \/ r.Position = position_filter)
                /\ (round_filter = "All" \/ r.Round = round_filter)
                /\ (search_filter = <<>> \/ literal_contains(r.Player, search_filter)))

\* C6: a pass that changes the Dataset queues a rerun, and whenever no run
\* is queued the My Team table and the grid view are those of the current
\* Dataset.
C6_RerunAfterCommit ==
    /\ [](~run_pending => Displayed)
    /\ [][df' # df => run_pending']_vars

\* C6 witness: a pass has committed an edit to 'My Team'; the table shown
\* is still the one computed before it and the rerun is queued.
C6_Witness ==
    /\ run_pending
    /\ dataframe_changed
    /\ my_team # my_team_of(df)

\* C7: the Dataset changes only in a pass whose grid data differs in
\* drafted: a filter, search or selection change and a pass without a
\* drafted difference leave it as it is and report no changed key.
C7_DatasetFrame ==
    [][/\ (Differing(df, grid_data') = <<>>
            => df' = df /\ drafted_players_updated' = <<>> /\ ~dataframe_changed')
       /\ (df' # df => dataframe_changed' /\ drafted_players_updated' # <<>>)
       /\ ((\/ position_filter' # position_filter
             \/ round_filter' # round_filter
             \/ search_filter' # search_filter
             \/ grid_selected' # grid_selected)
            => df' = df /\ drafted_players_updated' = <<>>)]_vars

\* C7 witness: after earlier edits, a filter is active, a row is selected,
\* and the last pass reported no changed key.
C7_Witness ==
    /\ ~run_pending
    /\ position_filter # "All"
    /\ search_filter # <<>>
    /\ grid_selected # NoPlayer
    /\ grid_data # <<>>
    /\ \E i \in DOMAIN df : df[i].drafted = "Other Team"
    /\ drafted_players_updated = <<>>

\* C8: the output of filter_dataframe is a subsequence of the Dataset in
\* its order, with no record more often than the Dataset holds it.
C8_FilterSubsequence == IsSubsequence(filtered_df, df)

\* C8 witness: two filters are active and the view holds two of the
\* Dataset's three rows.
C8_Witness ==
    /\ ~run_pending
    /\ position_filter # "All"
    /\ search_filter # <<>>
    /\ Len(df) = 3
    /\ Len(filtered_df) = 2
    /\ filtered_df[1] # filtered_df[2]

\* the style table of the specification: numbers and labels alike
ClaimedStyle(value) ==
    CASE value = Num(5) \/ value = Str("mega bullish") -> Style("white", "darkgreen")
      [] value = Num(4) \/ value = Str("bullish") -> Style("black", "lightgreen")
      [] value = Num(2) \/ value = Str("bearish") -> Style("black", "lightcoral")
      [] value = Num(1) \/ value = Str("mega bearish") -> Style("white", "darkred")
      [] OTHER -> Style("black", "white")

\* the style table with the labels left to the default
NumericStyle(value) ==
    CASE value = Num(5) -> Style("white", "darkgreen")
      [] value = Num(4) -> Style("black", "lightgreen")
      [] value = Num(2) -> Style("black", "lightcoral")
      [] value = Num(1) -> Style("white", "darkred")
      [] OTHER -> Style("black", "white")

\* C9 as stated: 5 or "mega bullish" is white on dark green, 4 or
\* "bullish" black on light green, 2 or "bearish" black on light coral,
\* 1 or "mega bearish" white on dark red, anything else black on white.
C9_StyleTable ==
    \A i \in DOMAIN cell_styles :
        cell_styles[i] = ClaimedStyle(filtered_df[i].Rating)

\* C9 as amended: the numbers 5, 4, 2 and 1 have their styles; every other
\* value, 3 and the four labels included, is black on white.
C9_NumericStyleTable ==
    \A i \in DOMAIN cell_styles :
        cell_styles[i] = NumericStyle(filtered_df[i].Rating)

\* C9 witness: the grid shows a 5, a 3 and a "bearish" cell.
C9_Witness ==
    /\ Len(cell_styles) = 3
    /\ filtered_df[1].Rating = Num(5)
    /\ filtered_df[2].Rating = Num(3)
    /\ filtered_df[3].Rating = Str("bearish")
    /\ cell_styles[1] = Style("white", "darkgreen")
    /\ cell_styles[3] = Style("black", "white")

\* C10: after one user event the script calls st.rerun() at most once
\* before it comes to rest.
C10_RerunsBounded == reruns <= 1

\* C10 witness: at rest after the one rerun that followed a drafted edit.
C10_Witness ==
    /\ ~run_pending
    /\ reruns = 1
    /\ grid_edit # NoEdit
    /\ \E i \in DOMAIN df : df[i].drafted = grid_edit.drafted /\ df[i].drafted # "False"
    /\ drafted_players_updated = <<>>

====
